---- MODULE Spec2Model ----
(***************************************************************************)
(* wilderfield::PriorityMap<int, int, Compare> (priority_map.hpp).         *)
(*                                                                         *)
(* vals_ is a std::list: its nodes have an identity that survives inserts  *)
(* and erases elsewhere in the list, and keys_ stores iterators, that is   *)
(* node identities.  The list is a sequence of node ids; node_val gives    *)
(* the value stored in each allocated node.  val_to_keys_ maps a value to  *)
(* an unordered_set of keys.  The code observes such a set only through    *)
(* empty(), insert, erase and *begin(), so a set is its members and the    *)
(* member begin() refers to (first).                                       *)
(***************************************************************************)
EXTENDS Integers, Sequences, FiniteSets

\* ---- bounds ----
NumKeys == 3
ValBound == 1
NumNodes == 4

Keys == 1..NumKeys
Vals == (0 - ValBound)..ValBound
NodeIds == 1..(NumKeys + 1)
NoKey == 0
Freed == 0 - 1
NoProxy == 0 - 1
\* the labels UnionFind<int> is used with
Nodes == 0..(NumNodes - 1)

VARIABLES comp_, vals_, node_val, keys_, val_to_keys_, ret, popped, size0, live,
          proxy, kahn, topological,
          parent_of_, rank_of_, max_rank_, num_cc_, joined

\* the caller's side of the priority map: a held Proxy and the variables of
\* the test "Checking khan's algo"
callervars == <<proxy, kahn, topological>>

\* wilderfield::UnionFind<int> and the pairs its Union calls have joined
ufvars == <<parent_of_, rank_of_, max_rank_, num_cc_, joined>>

vars == <<comp_, vals_, node_val, keys_, val_to_keys_, ret, popped, size0, live,
          callervars, ufvars>>

\* ---- helpers for sequences, std::list and std::unordered_set ----
Range(s) == {s[i] : i \in DOMAIN s}

Max(S) == CHOOSE x \in S : \A y \in S : y <= x

Min(S) == CHOOSE x \in S : \A y \in S : x <= y

\* position of the node an iterator refers to
IndexOf(list, it) == CHOOSE i \in 1..Len(list) : list[i] = it

\* std::list::insert(pos, value): the new node goes before position pos
ListInsert(list, pos, n) ==
  SubSeq(list, 1, pos - 1) \o <<n>> \o SubSeq(list, pos, Len(list))

\* std::list::erase(it)
ListErase(list, it) == SelectSeq(list, LAMBDA x : x # it)

\* a node the allocator can hand out: any id not in the list
NewNode(list) == Min(NodeIds \ Range(list))

\* an empty std::unordered_set<KeyType>
EmptySet == [keys |-> {}, first |-> NoKey]

\* unordered_set::insert(key): the outcomes.  Where the key lands in the
\* iteration order depends on the hash function, and a rehash reorders the
\* set, so afterwards begin() may refer to any member.
SetInsert(s, key) ==
  IF key \in s.keys
  THEN {s}
  ELSE {[keys |-> s.keys \cup {key}, first |-> f] : f \in s.keys \cup {key}}

\* unordered_set::erase(key): the outcomes.  The other members keep their
\* order, so begin() moves only when the key it refers to is erased; which
\* member is next is not observable before.
SetErase(s, key) ==
  IF key \notin s.keys
  THEN {s}
  ELSE IF s.keys = {key}
  THEN {EmptySet}
  ELSE IF s.first = key
  THEN {[keys |-> s.keys \ {key}, first |-> f] : f \in s.keys \ {key}}
  ELSE {[keys |-> s.keys \ {key}, first |-> s.first]}

\* unordered_map::operator[] on val_to_keys_: a missing entry is created empty
EntryOf(v2k, v) ==
  IF v \in DOMAIN v2k
  THEN v2k
  ELSE [w \in DOMAIN v2k \cup {v} |-> IF w = v THEN EmptySet ELSE v2k[w]]

\* unordered_map::erase(key) / restriction of a function to a smaller domain
MapErase(f, x) == [y \in DOMAIN f \ {x} |-> f[y]]

MapPut(f, x, y) == [z \in DOMAIN f \cup {x} |-> IF z = x THEN y ELSE f[z]]

\* ---- the comparator ----
Comp(c, a, b) == IF c = "greater" THEN a > b ELSE a < b

\* the map as a record, for the operators below
PM == [comp |-> comp_, vals |-> vals_, node |-> node_val, keys |-> keys_, v2k |-> val_to_keys_]

\* mutant: Size() counts the buckets of the list instead of the keys
Size_Buckets(S) == Len(S.vals)

Size(S) == Cardinality(DOMAIN S.keys)

Empty(S) == DOMAIN S.keys = {}

Count(S, key) == IF key \in DOMAIN S.keys THEN 1 ELSE 0

\* ValType val(key) const { return *(keys_.at(key)); }
val(S, key) == S.node[S.keys[key]]


\* ---- std::find_if over the list ----
\* hits: the positions of the list whose value satisfies the predicate.
\* forward from position `from`: the first hit, or end() (one past the last)
FindIf(list, hits, from) ==
  LET h == {j \in hits : j >= from}
  IN IF h = {} THEN Len(list) + 1 ELSE Min(h)

\* over reverse iterators: a reverse iterator is its base position b and
\* refers to position b - 1; rbegin() has base end(), rend() has base 1.
\* The result is the base position of the first hit towards the front.
RFindIf(list, hits, base) ==
  LET h == {j \in hits : j < base}
  IN IF h = {} THEN 1 ELSE Max(h) + 1

\* the lambda of both searches in Insert
InsertPred(v) == v >= 0

\* mutant: the forward search looks for a node that holds new_val and for
\* nothing else
UpdateFwdPred_Exact(c, v, new_val) == v = new_val

\* mutant: the forward search passes over a node that holds new_val
UpdateFwdPred_Strict(c, v, new_val) == IF Comp(c, 1, 0) THEN v < new_val ELSE v > new_val

\* mutant: the forward search uses the min-first test for every comparator
UpdateFwdPred_NoComp(c, v, new_val) == v >= new_val

\* the lambda of the forward search in Update
UpdateFwdPred(c, v, new_val) == IF Comp(c, 1, 0) THEN v <= new_val ELSE v >= new_val

\* mutant: the reverse search passes over a node that holds new_val
UpdateRevPred_Strict(c, v, new_val) == IF Comp(c, 0, 1) THEN v < new_val ELSE v > new_val

\* mutant: the reverse search uses the max-first test for every comparator
UpdateRevPred_NoComp(c, v, new_val) == v >= new_val

\* the lambda of the reverse search in Update
UpdateRevPred(c, v, new_val) == IF Comp(c, 0, 1) THEN v <= new_val ELSE v >= new_val

\* mutant: the old node is removed although keys are left in it
UpdateRemoveOld_Always(S, old_it, oldVal) ==
  [S EXCEPT !.v2k = MapErase(EntryOf(S.v2k, oldVal), S.node[old_it]),
            !.vals = ListErase(@, old_it),
            !.node = MapErase(@, old_it)]

\* mutant: the emptied node is left in the list
UpdateRemoveOld_Never(S, old_it, oldVal) == [S EXCEPT !.v2k = EntryOf(S.v2k, oldVal)]

\* Update, "Remove the old node if it's empty"
UpdateRemoveOld(S, old_it, oldVal) ==
  LET v2k == EntryOf(S.v2k, oldVal)
  IN IF v2k[oldVal].keys = {}
     THEN [S EXCEPT !.v2k = MapErase(v2k, S.node[old_it]),
                    !.vals = ListErase(@, old_it),
                    !.node = MapErase(@, old_it)]
     ELSE [S EXCEPT !.v2k = v2k]

\* Update, the two directional searches that find or create the node of
\* new_val and set keys_[key]
UpdatePlace(S, key, old_it, oldVal, new_val) ==
  IF Comp(S.comp, oldVal, new_val)
  THEN LET ip == FindIf(S.vals,
                        {j \in 1..Len(S.vals) : UpdateFwdPred(S.comp, S.node[S.vals[j]], new_val)},
                        IndexOf(S.vals, old_it))
       IN IF ip = Len(S.vals) + 1 \/ S.node[S.vals[ip]] # new_val
          THEN LET n == NewNode(S.vals)
               IN [S EXCEPT !.vals = ListInsert(@, ip, n),
                            !.node = MapPut(@, n, new_val),
                            !.keys = MapPut(@, key, n)]
          ELSE [S EXCEPT !.keys = MapPut(@, key, S.vals[ip])]
  ELSE LET b == RFindIf(S.vals,
                        {j \in 1..Len(S.vals) : UpdateRevPred(S.comp, S.node[S.vals[j]], new_val)},
                        IndexOf(S.vals, old_it))
       IN IF b = 1 \/ S.node[S.vals[b - 1]] # new_val
          THEN LET n == NewNode(S.vals)
                   cur == S.vals[b]
                   vals1 == ListInsert(S.vals, b, n)
               IN \* keys_[key] = newIt is overwritten by
                  \* std::next(insertion_point).base(): the node now in
                  \* front of the base of insertion_point
                  [S EXCEPT !.vals = vals1,
                            !.node = MapPut(@, n, new_val),
                            !.keys = MapPut(@, key, vals1[IndexOf(vals1, cur) - 1])]
          ELSE [S EXCEPT !.keys = MapPut(@, key, S.vals[b - 1])]

\* Update, the number of nodes the directional std::find_if applies its
\* lambda to: from old_it to the node it stops at, or to the end of the list
UpdateScan(S, key, old_it, oldVal, new_val) ==
  IF Comp(S.comp, oldVal, new_val)
  THEN LET from == IndexOf(S.vals, old_it)
           ip == FindIf(S.vals,
                        {j \in 1..Len(S.vals) : UpdateFwdPred(S.comp, S.node[S.vals[j]], new_val)},
                        from)
       IN IF ip = Len(S.vals) + 1 THEN Len(S.vals) - from + 1 ELSE ip - from + 1
  ELSE LET base == IndexOf(S.vals, old_it)
           b == RFindIf(S.vals,
                        {j \in 1..Len(S.vals) : UpdateRevPred(S.comp, S.node[S.vals[j]], new_val)},
                        base)
       IN IF b = 1 THEN base - 1 ELSE base - b + 1

\* mutant: Update without the early return for an unchanged value
Update_NoShortCut(S, key, new_val) ==
  LET old_it == S.keys[key]
      oldVal == S.node[old_it]
      keys1 == MapErase(S.keys, key)
      v2k0 == EntryOf(S.v2k, oldVal)
  IN UNION {{UpdateRemoveOld(
               UpdatePlace([S EXCEPT !.keys = keys1,
                                     !.v2k = MapPut(MapPut(v2k0, oldVal, e), new_val, i)],
                           key, old_it, oldVal, new_val),
               old_it, oldVal) :
               i \in SetInsert(MapPut(EntryOf(v2k0, new_val), oldVal, e)[new_val], key)} :
            e \in SetErase(v2k0[oldVal], key)}

\* void Update(key, new_val): the maps it can leave, one per outcome of the
\* erase from val_to_keys_[oldVal] and the insert into val_to_keys_[new_val]
Update(S, key, new_val) ==
  LET old_it == S.keys[key]
      oldVal == S.node[old_it]
  IN IF oldVal = new_val
     THEN {S}
     ELSE LET keys1 == MapErase(S.keys, key)
              v2k0 == EntryOf(EntryOf(S.v2k, oldVal), new_val)
          IN {UpdateRemoveOld(
                UpdatePlace([S EXCEPT !.keys = keys1,
                                      !.v2k = [v2k0 EXCEPT ![oldVal] = eo[1], ![new_val] = eo[2]]],
                            key, old_it, oldVal, new_val),
                old_it, oldVal) :
                eo \in SetErase(v2k0[oldVal], key) \X SetInsert(v2k0[new_val], key)}

\* Insert, the search that finds or creates the node of value 0 for a new key
InsertPlace(S, key) ==
  IF Comp(S.comp, 0, 1)
  THEN LET ip == FindIf(S.vals, {j \in 1..Len(S.vals) : InsertPred(S.node[S.vals[j]])}, 1)
       IN IF ip = Len(S.vals) + 1 \/ S.node[S.vals[ip]] # 0
          THEN LET n == NewNode(S.vals)
               IN [S EXCEPT !.vals = ListInsert(@, ip, n),
                            !.node = MapPut(@, n, 0),
                            !.keys = MapPut(@, key, n)]
          ELSE [S EXCEPT !.keys = MapPut(@, key, S.vals[ip])]
  ELSE LET b == RFindIf(S.vals, {j \in 1..Len(S.vals) : InsertPred(S.node[S.vals[j]])},
                        Len(S.vals) + 1)
       IN IF b = 1 \/ S.node[S.vals[b - 1]] # 0
          THEN LET n == NewNode(S.vals)
               IN [S EXCEPT !.vals = ListInsert(@, b, n),
                            !.node = MapPut(@, n, 0),
                            !.keys = MapPut(@, key, n)]
          ELSE [S EXCEPT !.keys = MapPut(@, key, S.vals[b - 1])]

\* void Insert(key, new_val)
Insert(S, key, new_val) ==
  IF key \notin DOMAIN S.keys
  THEN LET v2k0 == EntryOf(S.v2k, 0)
       IN UNION {Update(InsertPlace([S EXCEPT !.v2k = [v2k0 EXCEPT ![0] = e]], key),
                        key, new_val) : e \in SetInsert(v2k0[0], key)}
  ELSE Update(S, key, new_val)

\* mutant: operator[] creates an absent key with 1 instead of 0
OperatorIndex_One(S, key) == IF key \notin DOMAIN S.keys THEN Insert(S, key, 1) ELSE {S}

\* Proxy operator[](key)
OperatorIndex(S, key) == IF key \notin DOMAIN S.keys THEN Insert(S, key, 0) ELSE {S}

\* Proxy::operator++
ProxyIncr(S, key) == Update(S, key, val(S, key) + 1)

\* mutant: operator-- copied from operator++ with the sign left as it was
ProxyDecr_Plus(S, key) == Update(S, key, val(S, key) + 1)

\* Proxy::operator--
ProxyDecr(S, key) == Update(S, key, val(S, key) - 1)

\* Proxy::operator=(val)
ProxyAssign(S, key, v) == Update(S, key, v)

\* mutant: Erase removes the node without looking whether keys are left in it
Erase_DropNode(S, key) ==
  IF key \in DOMAIN S.keys
  THEN LET old_it == S.keys[key]
           v == S.node[old_it]
           v2k0 == EntryOf(S.v2k, v)
       IN {[S EXCEPT !.v2k = MapErase(v2k0, v),
                     !.vals = ListErase(@, old_it),
                     !.node = MapErase(@, old_it),
                     !.keys = MapErase(@, key)]}
  ELSE {S}

\* mutant: Erase leaves the emptied node in the list
Erase_KeepNode(S, key) ==
  IF key \in DOMAIN S.keys
  THEN LET old_it == S.keys[key]
           v == S.node[old_it]
           v2k0 == EntryOf(S.v2k, v)
       IN {IF e.keys = {}
           THEN [S EXCEPT !.v2k = MapErase(v2k0, v),
                          !.keys = MapErase(@, key)]
           ELSE [S EXCEPT !.v2k = [v2k0 EXCEPT ![v] = e],
                          !.keys = MapErase(@, key)] : e \in SetErase(v2k0[v], key)}
  ELSE {S}

\* std::size_t Erase(key): the maps it can leave
Erase(S, key) ==
  IF key \in DOMAIN S.keys
  THEN LET old_it == S.keys[key]
           v == S.node[old_it]
           v2k0 == EntryOf(S.v2k, v)
       IN {IF e.keys = {}
           THEN [S EXCEPT !.v2k = MapErase(v2k0, v),
                          !.vals = ListErase(@, old_it),
                          !.node = MapErase(@, old_it),
                          !.keys = MapErase(@, key)]
           ELSE [S EXCEPT !.v2k = [v2k0 EXCEPT ![v] = e],
                          !.keys = MapErase(@, key)] : e \in SetErase(v2k0[v], key)}
  ELSE {S}

\* mutant: Erase reports a removal whether or not the key was there
EraseCount_One(S, key) == 1

\* what Erase returns: keys_.erase(key)
EraseCount(S, key) == IF key \in DOMAIN S.keys THEN 1 ELSE 0

\* mutant: Top reads the back of the list instead of the front
Top_Back(S) ==
  IF S.vals = <<>>
  THEN [key |-> NoKey, val |-> 0, err |-> "out_of_range"]
  ELSE LET v == S.node[S.vals[Len(S.vals)]]
       IN IF v \notin DOMAIN S.v2k
          THEN [key |-> NoKey, val |-> 0, err |-> "out_of_range"]
          ELSE IF S.v2k[v].keys = {}
          THEN [key |-> NoKey, val |-> 0, err |-> "logic_error"]
          ELSE [key |-> S.v2k[v].first, val |-> v, err |-> "none"]

\* mutant: of the keys tied at the front Top takes the largest, not begin()
Top_LargestKey(S) ==
  IF S.vals = <<>>
  THEN [key |-> NoKey, val |-> 0, err |-> "out_of_range"]
  ELSE LET v == S.node[Head(S.vals)]
       IN IF v \notin DOMAIN S.v2k
          THEN [key |-> NoKey, val |-> 0, err |-> "out_of_range"]
          ELSE IF S.v2k[v].keys = {}
          THEN [key |-> NoKey, val |-> 0, err |-> "logic_error"]
          ELSE [key |-> Max(S.v2k[v].keys), val |-> v, err |-> "none"]

\* what Top returns or throws
Top(S) ==
  IF S.vals = <<>>
  THEN [key |-> NoKey, val |-> 0, err |-> "out_of_range"]
  ELSE LET v == S.node[Head(S.vals)]
       IN IF v \notin DOMAIN S.v2k
          THEN [key |-> NoKey, val |-> 0, err |-> "out_of_range"]
          ELSE IF S.v2k[v].keys = {}
          THEN [key |-> NoKey, val |-> 0, err |-> "logic_error"]
          ELSE [key |-> S.v2k[v].first, val |-> v, err |-> "none"]

\* the key Pop removes and the value of its node, or what Pop throws
PopResult(S) ==
  IF S.vals = <<>>
  THEN [key |-> NoKey, val |-> 0, err |-> "out_of_range"]
  ELSE LET v == S.node[Head(S.vals)]
       IN IF EntryOf(S.v2k, v)[v].keys = {}
          THEN [key |-> NoKey, val |-> 0, err |-> "logic_error"]
          ELSE [key |-> S.v2k[v].first, val |-> v, err |-> "none"]

\* mutant: Pop removes the front node although keys are left in it
Pop_DropNode(S) ==
  IF S.vals = <<>>
  THEN {S}
  ELSE LET old_it == Head(S.vals)
           v == S.node[old_it]
           v2k0 == EntryOf(S.v2k, v)
       IN IF v2k0[v].keys = {}
          THEN {[S EXCEPT !.v2k = v2k0]}
          ELSE LET key == v2k0[v].first
               IN {[S EXCEPT !.v2k = MapErase(v2k0, v),
                             !.vals = ListErase(@, old_it),
                             !.node = MapErase(@, old_it),
                             !.keys = MapErase(@, key)] : e \in SetErase(v2k0[v], key)}

\* void Pop(): the maps it can leave
Pop(S) ==
  IF S.vals = <<>>
  THEN {S}
  ELSE LET old_it == Head(S.vals)
           v == S.node[old_it]
           v2k0 == EntryOf(S.v2k, v)
       IN IF v2k0[v].keys = {}
          THEN {[S EXCEPT !.v2k = v2k0]}
          ELSE LET key == v2k0[v].first
               IN {IF e.keys = {}
                   THEN [S EXCEPT !.v2k = MapErase(v2k0, v),
                                  !.vals = ListErase(@, old_it),
                                  !.node = MapErase(@, old_it),
                                  !.keys = MapErase(@, key)]
                   ELSE [S EXCEPT !.v2k = [v2k0 EXCEPT ![v] = e],
                                  !.keys = MapErase(@, key)] : e \in SetErase(v2k0[v], key)}

\* ---- the state machine ----
Comparators == {"greater", "less"}

\* The last call: its name and key, what it returned (val: the value read,
\* returned by Top or removed by Pop, or the value assigned; n: the count
\* Erase returned), what it threw (err), and whether operator[] created the key.
Ret(op, key, v, n, created, err) ==
  [op |-> op, key |-> key, val |-> v, n |-> n, created |-> created, err |-> err]

\* no Proxy is held and the test has not started
CallerInit ==
  /\ proxy = NoProxy
  /\ kahn = [pc |-> "idle", u |-> 0, i |-> 0, minVal |-> 0]
  /\ topological = <<>>

\* a default-constructed UnionFind
UFInit ==
  /\ parent_of_ = <<>>
  /\ rank_of_ = <<>>
  /\ max_rank_ = 0
  /\ num_cc_ = 0
  /\ joined = {}

\* a default-constructed PriorityMap
PMInit ==
  /\ vals_ = <<>>
  /\ node_val = <<>>
  /\ keys_ = <<>>
  /\ val_to_keys_ = <<>>
  /\ ret = Ret("none", NoKey, 0, 0, FALSE, "none")
  /\ popped = <<>>
  /\ size0 = 0
  /\ live = {}

Init ==
  /\ comp_ \in Comparators
  /\ PMInit
  /\ CallerInit
  /\ UFInit

\* The address of a list node is not observable: only which node an iterator
\* refers to is.  Between operations the nodes are named by their position in
\* the list; an iterator to a node that is no longer in the list is Freed.
Canon(S) ==
  [S EXCEPT !.vals = [i \in 1..Len(S.vals) |-> i],
            !.node = [i \in 1..Len(S.vals) |-> S.node[S.vals[i]]],
            !.keys = [k \in DOMAIN S.keys |->
                        IF S.keys[k] \in Range(S.vals) THEN IndexOf(S.vals, S.keys[k]) ELSE Freed]]

\* the map becomes T
Store(T) ==
  \E C \in {Canon(T)} :
     /\ comp_' = comp_
     /\ vals_' = C.vals
     /\ node_val' = C.node
     /\ keys_' = C.keys
     /\ val_to_keys_' = C.v2k

\* an operation other than Top and Pop ends the run of Tops and Pops
EndRun(T) ==
  /\ popped' = <<>>
  /\ size0' = Size(T)

\* int x = pmap[key];
DoRead(key) ==
  \E T \in OperatorIndex(PM, key) :
    /\ Store(T)
    /\ ret' = Ret("Read", key, val(T, key), 0, key \notin DOMAIN keys_, "none")
    /\ EndRun(T)
    /\ live' = live \cup {key}
    /\ UNCHANGED <<callervars, ufvars>>

\* ++pmap[key];
DoIncr(key) ==
  \E S1 \in OperatorIndex(PM, key) :
    /\ val(S1, key) + 1 \in Vals
    /\ \E T \in ProxyIncr(S1, key) :
         /\ Store(T)
         /\ ret' = Ret("Incr", key, 0, 0, key \notin DOMAIN keys_, "none")
         /\ EndRun(T)
         /\ live' = live \cup {key}
         /\ UNCHANGED <<callervars, ufvars>>

\* --pmap[key];
DoDecr(key) ==
  \E S1 \in OperatorIndex(PM, key) :
    /\ val(S1, key) - 1 \in Vals
    /\ \E T \in ProxyDecr(S1, key) :
         /\ Store(T)
         /\ ret' = Ret("Decr", key, 0, 0, key \notin DOMAIN keys_, "none")
         /\ EndRun(T)
         /\ live' = live \cup {key}
         /\ UNCHANGED <<callervars, ufvars>>

\* pmap[key] = v;
DoAssign(key, v) ==
  \E S1 \in OperatorIndex(PM, key) :
    \E T \in ProxyAssign(S1, key, v) :
      /\ Store(T)
      /\ ret' = Ret("Assign", key, v, 0, key \notin DOMAIN keys_, "none")
      /\ EndRun(T)
      /\ live' = live \cup {key}
      /\ UNCHANGED <<callervars, ufvars>>

\* pmap.Erase(key);
DoErase(key) ==
  \E T \in Erase(PM, key) :
    /\ Store(T)
    /\ ret' = Ret("Erase", key, 0, EraseCount(PM, key), FALSE, "none")
    /\ EndRun(T)
    /\ live' = live \ {key}
    /\ UNCHANGED <<callervars, ufvars>>

\* pmap.Top();
DoTop ==
  LET r == Top(PM)
  IN /\ UNCHANGED <<comp_, vals_, node_val, keys_, val_to_keys_, popped, size0, live>>
     /\ ret' = Ret("Top", r.key, r.val, 0, FALSE, r.err)
     /\ UNCHANGED <<callervars, ufvars>>

\* pmap.Pop();
DoPop ==
  \E T \in Pop(PM) :
    LET r == PopResult(PM)
    IN /\ Store(T)
       /\ ret' = Ret("Pop", r.key, r.val, 0, FALSE, r.err)
       /\ popped' = IF r.err = "none" THEN Append(popped, r.val) ELSE popped
       /\ size0' = size0
       /\ live' = IF r.err = "none" THEN live \ {r.key} ELSE live
       /\ UNCHANGED <<callervars, ufvars>>

Next ==
  \/ \E key \in Keys : DoRead(key)
  \/ \E key \in Keys : DoIncr(key)
  \/ \E key \in Keys : DoDecr(key)
  \/ \E key \in Keys, v \in Vals : DoAssign(key, v)
  \/ \E key \in Keys : DoErase(key)
  \/ DoTop
  \/ DoPop

Spec == Init /\ [][Next]_vars

\* ---- the test section "Checking khan's algo" ----
\* std::vector<std::vector<int>> graph(6)
GraphSize == 6

\* the adjacency lists the test fills with push_back
graph ==
  [n \in 0..(GraphSize - 1) |->
     IF n = 0 THEN <<1, 3>>
     ELSE IF n = 2 THEN <<0, 4>>
     ELSE IF n = 3 THEN <<1>>
     ELSE IF n = 4 THEN <<3, 5>>
     ELSE IF n = 5 THEN <<1>>
     ELSE <<>>]

\* the orders the test accepts
golden == {<<2, 0, 4, 3, 5, 1>>, <<2, 4, 0, 3, 5, 1>>, <<2, 4, 5, 0, 3, 1>>}

\* the test leaves the variables that record the last call of the other
\* specification, the held Proxy and the UnionFind alone
KahnFrame == UNCHANGED <<ret, popped, size0, live, proxy, ufvars>>

\* wilderfield::PriorityMap<int, int, std::less<int>> pmap; the test is at
\* its first loop
KahnInit ==
  /\ comp_ = "less"
  /\ PMInit
  /\ proxy = NoProxy
  /\ kahn = [pc |-> "seed", u |-> 0, i |-> 1, minVal |-> 0]
  /\ topological = <<>>
  /\ UFInit

\* for (int u = 0; u < graph.size(); u++) { pmap[u] = 0; }
KSeed ==
  /\ kahn.pc = "seed"
  /\ IF kahn.u < GraphSize
     THEN /\ \E S1 \in OperatorIndex(PM, kahn.u) :
               \E T \in ProxyAssign(S1, kahn.u, 0) : Store(T)
          /\ kahn' = [kahn EXCEPT !.u = @ + 1]
     ELSE /\ UNCHANGED <<comp_, vals_, node_val, keys_, val_to_keys_>>
          /\ kahn' = [kahn EXCEPT !.pc = "indeg", !.u = 0, !.i = 1]
  /\ UNCHANGED topological
  /\ KahnFrame

\* for (int u = 0; ...; u++) { for (auto v : graph[u]) { ++pmap[v]; } }
KIndeg ==
  /\ kahn.pc = "indeg"
  /\ IF kahn.u = GraphSize
     THEN /\ UNCHANGED <<comp_, vals_, node_val, keys_, val_to_keys_>>
          /\ kahn' = [kahn EXCEPT !.pc = "loop"]
     ELSE IF kahn.i > Len(graph[kahn.u])
     THEN /\ UNCHANGED <<comp_, vals_, node_val, keys_, val_to_keys_>>
          /\ kahn' = [kahn EXCEPT !.u = @ + 1, !.i = 1]
     ELSE /\ \E S1 \in OperatorIndex(PM, graph[kahn.u][kahn.i]) :
               \E T \in ProxyIncr(S1, graph[kahn.u][kahn.i]) : Store(T)
          /\ kahn' = [kahn EXCEPT !.i = @ + 1]
  /\ UNCHANGED topological
  /\ KahnFrame

\* while (!pmap.Empty()) { auto [u, minVal] = pmap.Top(); ...
\* after the loop the test looks the order up in golden and REQUIREs it found
KLoop ==
  /\ kahn.pc = "loop"
  /\ IF Empty(PM)
     THEN kahn' = [kahn EXCEPT !.pc = IF topological \in golden THEN "done" ELSE "failed_valid"]
     ELSE LET r == Top(PM)
          IN IF r.err = "none"
             THEN kahn' = [kahn EXCEPT !.pc = "pop", !.u = r.key, !.minVal = r.val]
             ELSE kahn' = [kahn EXCEPT !.pc = "threw"]
  /\ UNCHANGED <<comp_, vals_, node_val, keys_, val_to_keys_, topological>>
  /\ KahnFrame

\* ... pmap.Pop(); REQUIRE(minVal == 0); topological.push_back(u); ...
KPop ==
  /\ kahn.pc = "pop"
  /\ \E T \in Pop(PM) : Store(T)
  /\ IF PopResult(PM).err # "none"
     THEN kahn' = [kahn EXCEPT !.pc = "threw"] /\ UNCHANGED topological
     ELSE IF kahn.minVal # 0
     THEN kahn' = [kahn EXCEPT !.pc = "failed_minVal"] /\ UNCHANGED topological
     ELSE /\ kahn' = [kahn EXCEPT !.pc = "decr", !.i = 1]
          /\ topological' = Append(topological, kahn.u)
  /\ KahnFrame

\* ... for (auto v : graph[u]) { --pmap[v]; } }
KDecr ==
  /\ kahn.pc = "decr"
  /\ IF kahn.i > Len(graph[kahn.u])
     THEN /\ UNCHANGED <<comp_, vals_, node_val, keys_, val_to_keys_>>
          /\ kahn' = [kahn EXCEPT !.pc = "loop"]
     ELSE /\ \E S1 \in OperatorIndex(PM, graph[kahn.u][kahn.i]) :
               \E T \in ProxyDecr(S1, graph[kahn.u][kahn.i]) : Store(T)
          /\ kahn' = [kahn EXCEPT !.i = @ + 1]
  /\ UNCHANGED topological
  /\ KahnFrame

KahnNext ==
  \/ KSeed
  \/ KIndeg
  \/ KLoop
  \/ KPop
  \/ KDecr

KahnSpec == KahnInit /\ [][KahnNext]_vars


\* ---- wilderfield::UnionFind<int> (union_find.hpp) ----
\* the UnionFind as a record, for the operators below
UF == [parent |-> parent_of_, rank |-> rank_of_, max_rank |-> max_rank_, num_cc |-> num_cc_]

\* std::unordered_map<T, T>::operator[] and <T, size_t>::operator[]: a
\* missing entry is created value-initialised, that is 0
ZeroEntry(f, x) == IF x \in DOMAIN f THEN f ELSE MapPut(f, x, 0)

\* T Find(T u): the representative and parent_of_ as path compression left it
RECURSIVE Find(_, _)
Find(parent, x) ==
  LET p0 == ZeroEntry(parent, x)
  IN IF p0[x] = x
     THEN [parent |-> p0, u |-> x]
     ELSE LET p1 == ZeroEntry(p0, p0[x])
              p2 == MapPut(p1, x, p1[p1[x]])
          IN Find(p2, p2[x])

\* mutant: InsertNode without the test for a node that is there already
InsertNode_NoCheck(U, x) ==
  [U EXCEPT !.parent = MapPut(@, x, x),
            !.rank = MapPut(@, x, 1),
            !.num_cc = @ + 1]

\* void InsertNode(T u)
InsertNode(U, x) ==
  IF x \notin DOMAIN U.parent
  THEN [U EXCEPT !.parent = MapPut(@, x, x),
                 !.rank = MapPut(@, x, 1),
                 !.num_cc = @ + 1]
  ELSE U

\* void Union(T u, T v)
Union(U, x, y) ==
  IF x \in DOMAIN U.parent /\ y \in DOMAIN U.parent
  THEN LET fu == Find(U.parent, x)
           fv == Find(fu.parent, y)
           repr_of_u == fu.u
           repr_of_v == fv.u
           rank0 == ZeroEntry(ZeroEntry(U.rank, repr_of_u), repr_of_v)
       IN IF repr_of_u # repr_of_v
          THEN IF rank0[repr_of_u] >= rank0[repr_of_v]
               THEN [parent |-> MapPut(fv.parent, repr_of_v, repr_of_u),
                     rank |-> MapPut(rank0, repr_of_u, rank0[repr_of_u] + rank0[repr_of_v]),
                     max_rank |-> Max({U.max_rank, rank0[repr_of_u] + rank0[repr_of_v]}),
                     num_cc |-> U.num_cc - 1]
               ELSE [parent |-> MapPut(fv.parent, repr_of_u, repr_of_v),
                     rank |-> MapPut(rank0, repr_of_v, rank0[repr_of_v] + rank0[repr_of_u]),
                     max_rank |-> Max({U.max_rank, rank0[repr_of_v] + rank0[repr_of_u]}),
                     num_cc |-> U.num_cc - 1]
          ELSE [U EXCEPT !.parent = fv.parent]
  ELSE U

\* std::size_t GetMaxRank() const
GetMaxRank(U) == U.max_rank

\* std::size_t GetNumComponents() const
GetNumComponents(U) == U.num_cc

\* the UnionFind becomes U
UFStore(U) ==
  /\ parent_of_' = U.parent
  /\ rank_of_' = U.rank
  /\ max_rank_' = U.max_rank
  /\ num_cc_' = U.num_cc

\* the UnionFind calls leave the priority map and its caller alone
UFFrame == UNCHANGED <<comp_, vals_, node_val, keys_, val_to_keys_, popped, size0, live, callervars>>

UFSpecInit ==
  /\ comp_ = "greater"
  /\ PMInit
  /\ CallerInit
  /\ UFInit

\* joined is the history of the calls: the nodes inserted so far, grouped
\* into the sets that chains of Union calls between inserted nodes have made
Inserted == UNION joined
ClassOf(x) == CHOOSE c \in joined : x \in c

\* uf.InsertNode(x); ret records the call and whether x was new
DoInsertNode(x) ==
  /\ UFStore(InsertNode(UF, x))
  /\ ret' = Ret("InsertNode", x, 0, 0, x \notin Inserted, "none")
  /\ joined' = IF x \in Inserted THEN joined ELSE joined \cup {{x}}
  /\ UFFrame

\* uf.Union(x, y); ret records the call (key: x, val: y)
DoUnion(x, y) ==
  /\ UFStore(Union(UF, x, y))
  /\ ret' = Ret("Union", x, y, 0, FALSE, "none")
  /\ joined' = IF x \in Inserted /\ y \in Inserted
               THEN (joined \ {ClassOf(x), ClassOf(y)}) \cup {ClassOf(x) \cup ClassOf(y)}
               ELSE joined
  /\ UFFrame

UFNext ==
  \/ \E x \in Nodes : DoInsertNode(x)
  \/ \E x, y \in Nodes : DoUnion(x, y)

UFSpec == UFSpecInit /\ [][UFNext]_vars

\* ---- what the properties talk about ----
core == <<vals_, node_val, keys_, val_to_keys_>>

LiveKeys == DOMAIN keys_

\* the values of the bucket list, front to back
ListVals == [i \in 1..Len(vals_) |-> node_val[vals_[i]]]

\* the value of a live key, read through its iterator
ValOf(k) == node_val[keys_[k]]

LiveVals == {ValOf(k) : k \in LiveKeys}

KeysAt(v) == {k \in LiveKeys : ValOf(k) = v}

\* the same after the step
PMN == [comp |-> comp_', vals |-> vals_', node |-> node_val', keys |-> keys_', v2k |-> val_to_keys_']

LiveKeysN == DOMAIN keys_'

ListValsN == [i \in 1..Len(vals_') |-> node_val'[vals_'[i]]]

ValOfN(k) == node_val'[keys_'[k]]

\* the value no other value of the set comes before
Extreme(V) == CHOOSE v \in V : \A w \in V : ~Comp(comp_, w, v)

\* every iterator of keys_ refers to a node of the list
IteratorsValid == \A k \in LiveKeys : keys_[k] \in Range(vals_)

\* C1: the bucket list is strictly sorted front to back by the comparator, so
\* it holds each value at most once
C1_SortedDistinct ==
  \A i, j \in 1..Len(vals_) : i < j => Comp(comp_, ListVals[i], ListVals[j])

\* a key was just created at zero between a positive and a negative bucket
C1_Witness ==
  /\ ret.op = "Read" /\ ret.created
  /\ Len(vals_) = 3
  /\ ListVals[2] = 0
  /\ ListVals[1] * ListVals[3] < 0
  /\ val_to_keys_[0].keys = {ret.key}

\* C2: every live key's iterator refers to a node of the list, the key is in
\* the key set of that node's value and of no other value, and the key sets
\* together hold exactly the live keys
C2_KeyIndexConsistent ==
  /\ IteratorsValid
  /\ \A k \in LiveKeys : \A v \in DOMAIN val_to_keys_ :
       k \in val_to_keys_[v].keys <=> v = ValOf(k)
  /\ \A k \in LiveKeys : ValOf(k) \in DOMAIN val_to_keys_
  /\ UNION {val_to_keys_[v].keys : v \in DOMAIN val_to_keys_} = LiveKeys
  /\ \A v, w \in DOMAIN val_to_keys_ :
       v # w => val_to_keys_[v].keys \cap val_to_keys_[w].keys = {}

\* an Update moved a key out of a bucket another key stays in
C2_Witness ==
  /\ ret.op \in {"Incr", "Decr", "Assign"}
  /\ Cardinality(LiveKeys) = 3
  /\ Len(vals_) = 2
  /\ Cardinality(KeysAt(ValOf(ret.key))) = 2

\* C3: a value is a node of the list iff val_to_keys_ has a non-empty entry
\* for it; the values of the list are the values of the live keys, so there
\* are no more buckets than live keys and no bucket without a key
C3_BucketsNonEmpty ==
  /\ \A v \in Vals :
       (v \in Range(ListVals)) <=> (v \in DOMAIN val_to_keys_ /\ val_to_keys_[v].keys # {})
  /\ \A v \in DOMAIN val_to_keys_ : val_to_keys_[v].keys # {}
  /\ IteratorsValid
  /\ Range(ListVals) = LiveVals
  /\ Len(vals_) <= Cardinality(LiveKeys)

\* an Update just emptied a bucket and removed it while others remain
C3_Witness ==
  /\ ret.op \in {"Incr", "Decr", "Assign"} /\ ~ret.created
  /\ Cardinality(LiveKeys) = 3
  /\ Len(vals_) = 1

\* C4: on a non-empty map Top returns the extreme value of the live keys
\* and a live key that holds it
C4_TopExtreme ==
  LiveKeys # {} =>
    /\ Top(PM).err = "none"
    /\ IteratorsValid
    /\ Top(PM).val = Extreme(LiveVals)
    /\ Top(PM).key \in LiveKeys
    /\ ValOf(Top(PM).key) = Top(PM).val

\* Top returned the minimum of three different values of a min-first map
C4_Witness ==
  /\ ret.op = "Top" /\ ret.err = "none"
  /\ comp_ = "less"
  /\ Cardinality(LiveVals) = 3
  /\ ret.val = 0 - 1
  /\ ValOf(ret.key) = 0 - 1


\* C5: Pop on a non-empty map removes exactly one key, a key that held the
\* front (extreme) value; Size() goes down by one; the front node is deleted
\* iff that key was its only occupant; and a run of Pops that started with
\* Size() = n has emptied the map after exactly n of them
C5_PopRemovesOneFrontKey ==
  [][(ret'.op = "Pop" /\ LiveKeys # {}) =>
       /\ ret'.err = "none"
       /\ ret'.key \in LiveKeys
       /\ LiveKeysN = LiveKeys \ {ret'.key}
       /\ ValOf(ret'.key) = Extreme(LiveVals)
       /\ ValOf(ret'.key) = ListVals[1]
       /\ \A k \in LiveKeysN : keys_'[k] \in Range(vals_') /\ ValOfN(k) = ValOf(k)
       /\ Cardinality(LiveKeysN) = Cardinality(LiveKeys) - 1
       /\ IF KeysAt(ListVals[1]) = {ret'.key}
          THEN ListValsN = Tail(ListVals)
          ELSE ListValsN = ListVals
       /\ Len(popped') <= size0'
       /\ (Len(popped') = size0') <=> (LiveKeysN = {})]_vars

\* three Pops in a row have emptied a map of three keys, two of them tied
C5_Witness ==
  /\ ret.op = "Pop" /\ ret.err = "none"
  /\ size0 = 3
  /\ Len(popped) = 3
  /\ popped[1] = popped[2]
  /\ popped[2] # popped[3]
  /\ LiveKeys = {}

\* C6: while a map is drained by Top and Pop alone, the popped values are
\* monotone in comparator order, and no key left in the map has a value that
\* comes before a popped one (tied keys go before any later value)
C6_DrainMonotone ==
  /\ \A i, j \in 1..Len(popped) : i < j => ~Comp(comp_, popped[j], popped[i])
  /\ IteratorsValid
  /\ \A i \in 1..Len(popped) : \A k \in LiveKeys : ~Comp(comp_, ValOf(k), popped[i])

\* a max-first map with values 1, 1, 0 popped 1, 1 and then 0
C6_Witness ==
  /\ comp_ = "greater"
  /\ ret.op = "Pop"
  /\ popped = <<1, 1, 0>>

\* C7: Top and Pop on a map without keys throw std::out_of_range and leave
\* the map empty: no key, no node, no val_to_keys_ entry
C7_EmptyTopPopThrow ==
  [][(ret'.op \in {"Top", "Pop"} /\ LiveKeys = {}) =>
       /\ ret'.err = "out_of_range"
       /\ LiveKeysN = {}
       /\ vals_' = <<>>
       /\ DOMAIN val_to_keys_' = {}
       /\ DOMAIN node_val' = {}]_vars

\* Pop threw on a map that three Pops had emptied before
C7_Witness ==
  /\ ret.op = "Pop" /\ ret.err = "out_of_range"
  /\ Len(popped) = 3
  /\ LiveKeys = {}
  /\ vals_ = <<>>
  /\ DOMAIN val_to_keys_ = {}

\* C8: Erase(k) of a live key returns 1 and removes k (and nothing else);
\* Erase(k) of an absent key returns 0 and leaves keys_, vals_ and
\* val_to_keys_ as they were; the second of two Erase(k) in a row returns 0
C8_EraseCount ==
  [][ret'.op = "Erase" =>
       /\ ret'.key \in LiveKeys =>
            /\ ret'.n = 1
            /\ LiveKeysN = LiveKeys \ {ret'.key}
       /\ ret'.key \notin LiveKeys =>
            /\ ret'.n = 0
            /\ UNCHANGED core
       /\ (ret.op = "Erase" /\ ret.key = ret'.key) => ret'.n = 0]_vars

\* Erase of an absent key returned 0 and two other keys are still live
C8_Witness ==
  /\ ret.op = "Erase" /\ ret.n = 0
  /\ ret.key \notin LiveKeys
  /\ Cardinality(LiveKeys) = 2

\* C9: ++pmap[k] leaves a live k one higher and --pmap[k] one lower; on an
\* absent k they leave k live with 1 and with -1; for both comparators
C9_IncrDecr ==
  [][/\ ret'.op = "Incr" =>
          /\ ret'.key \in LiveKeysN
          /\ keys_'[ret'.key] \in Range(vals_')
          /\ ValOfN(ret'.key) = IF ret'.key \in LiveKeys THEN ValOf(ret'.key) + 1 ELSE 1
     /\ ret'.op = "Decr" =>
          /\ ret'.key \in LiveKeysN
          /\ keys_'[ret'.key] \in Range(vals_')
          /\ ValOfN(ret'.key) = IF ret'.key \in LiveKeys THEN ValOf(ret'.key) - 1 ELSE 0 - 1]_vars

\* --pmap[k] created k with -1 in a min-first map that holds other keys
C9_Witness ==
  /\ ret.op = "Decr" /\ ret.created
  /\ comp_ = "less"
  /\ ValOf(ret.key) = 0 - 1
  /\ Cardinality(LiveKeys) = 3

\* C10: after pmap[k] = v the key k is live with value v, whether it was
\* absent or live before; assigning a live key the value it has changes
\* neither the bucket list nor the indices
C10_Assign ==
  [][ret'.op = "Assign" =>
       /\ ret'.key \in LiveKeysN
       /\ keys_'[ret'.key] \in Range(vals_')
       /\ ValOfN(ret'.key) = ret'.val
       /\ (ret'.key \in LiveKeys /\ ValOf(ret'.key) = ret'.val) => UNCHANGED core]_vars

\* an absent key was assigned a value another key already holds
C10_Witness ==
  /\ ret.op = "Assign" /\ ret.created
  /\ ret.val # 0
  /\ ValOf(ret.key) = ret.val
  /\ Cardinality(KeysAt(ret.val)) = 2
  /\ Len(vals_) = 2

\* C11: obtaining the accessor pmap[k] of an absent key k creates k with
\* value 0: Size() grows by one, a bucket of value 0 exists afterwards and
\* holds k, and reading the accessor yields 0; obtaining and reading the
\* accessor of a live key changes nothing and yields the key's value
C11_AccessorCreatesZero ==
  [][ret'.op = "Read" =>
       IF ret'.key \notin LiveKeys
       THEN /\ LiveKeysN = LiveKeys \cup {ret'.key}
            /\ Size(PMN) = Size(PM) + 1
            /\ Count(PMN, ret'.key) = 1
            /\ 0 \in Range(ListValsN)
            /\ 0 \in DOMAIN val_to_keys_'
            /\ ret'.key \in val_to_keys_'[0].keys
            /\ keys_'[ret'.key] \in Range(vals_')
            /\ ValOfN(ret'.key) = 0
            /\ ret'.val = 0
       ELSE /\ UNCHANGED core
            /\ ret'.val = ValOf(ret'.key)]_vars

\* the accessor created a key in the zero bucket another key already was in
C11_Witness ==
  /\ ret.op = "Read" /\ ret.created /\ ret.val = 0
  /\ Cardinality(LiveKeys) = 3
  /\ Cardinality(KeysAt(0)) = 2
  /\ Len(vals_) = 2

\* the map T, node addresses aside, is the map of the current state: the same
\* bucket values in the same order, the same keys with the same buckets, and
\* the same key set for every value
SameMap(T) ==
  LET C == Canon(T)
  IN /\ C.vals = vals_
     /\ C.node = node_val
     /\ C.keys = keys_
     /\ DOMAIN C.v2k = DOMAIN val_to_keys_
     /\ \A w \in DOMAIN val_to_keys_ : C.v2k[w].keys = val_to_keys_[w].keys

\* C12: from every reachable state and for every live key k, ++pmap[k]
\* followed by --pmap[k], and -- followed by ++, gives back the same map:
\* every key has its prior value and bucket, the bucket list is the same
\* sequence of values, and val_to_keys_ has the same non-empty key sets
C12_IncrDecrRoundTrip ==
  \A k \in LiveKeys :
    /\ \A T \in ProxyIncr(PM, k) : \A U2 \in ProxyDecr(T, k) : SameMap(U2)
    /\ \A T \in ProxyDecr(PM, k) : \A U2 \in ProxyIncr(T, k) : SameMap(U2)

\* a key alone in the middle bucket of three: ++ and -- each move it into a
\* neighbouring bucket and delete its own, which the way back has to recreate
C12_Witness ==
  /\ ret.op \in {"Incr", "Decr"} /\ ~ret.created
  /\ Len(vals_) = 3
  /\ ValOf(ret.key) = 0
  /\ KeysAt(0) = {ret.key}

\* C13: Size() is the number of keys created by an accessor and not removed
\* by Erase or Pop since (live), Empty() holds iff Size() is 0, and Count(k)
\* is 1 for such a key and 0 for any other
C13_SizeEmptyCount ==
  /\ Size(PM) = Cardinality(live)
  /\ Empty(PM) <=> (Size(PM) = 0)
  /\ \A k \in Keys : Count(PM, k) = IF k \in live THEN 1 ELSE 0

\* Pop removed one of two keys: the other still counts, the removed one not
C13_Witness ==
  /\ ret.op = "Pop" /\ ret.err = "none"
  /\ size0 = 2
  /\ Cardinality(live) = 1
  /\ Size(PM) = 1
  /\ Count(PM, ret.key) = 0

\* the bucket values a unit step of key k from value old to value new must
\* leave: new gets a bucket directly next to the bucket of old (after it when
\* new comes after old in comparator order, before it otherwise) unless new
\* has one, and the bucket of old goes when k was alone in it
UnitStepList(k, old, new) ==
  LET pos == keys_[k]
      withNew == IF new \in Range(ListVals)
                 THEN ListVals
                 ELSE IF Comp(comp_, old, new)
                 THEN ListInsert(ListVals, pos + 1, new)
                 ELSE ListInsert(ListVals, pos, new)
  IN IF KeysAt(old) = {k} THEN ListErase(withNew, old) ELSE withNew

\* the bucket of new, when there is one, is the neighbour of the bucket of old
\* in the direction of the step
UnitStepNeighbour(k, old, new) ==
  LET pos == keys_[k]
  IN new \in Range(ListVals) =>
       IF Comp(comp_, old, new)
       THEN pos < Len(vals_) /\ ListVals[pos + 1] = new
       ELSE pos > 1 /\ ListVals[pos - 1] = new

\* C19: for ++ and -- on a live key the directional search of Update, which
\* starts at the key's node, applies its lambda to at most two nodes however
\* many buckets the list holds, and the key ends in the neighbouring bucket
\* or in a new bucket placed directly next to the old one
C19_UnitStepLocal ==
  [][(ret'.op \in {"Incr", "Decr"} /\ ret'.key \in LiveKeys) =>
       LET k == ret'.key
           old == ValOf(k)
           new == IF ret'.op = "Incr" THEN old + 1 ELSE old - 1
       IN /\ UpdateScan(PM, k, keys_[k], old, new) <= 2
          /\ UnitStepNeighbour(k, old, new)
          /\ ListValsN = UnitStepList(k, old, new)
          /\ keys_'[k] \in Range(vals_')
          /\ ValOfN(k) = new]_vars

\* ++ on a max-first map moved a key out of the back bucket, where another
\* key stays, into a new bucket between the two there were
C19_Witness ==
  /\ ret.op = "Incr" /\ ~ret.created
  /\ comp_ = "greater"
  /\ Cardinality(LiveKeys) = 3
  /\ ListVals = <<1, 0, 0 - 1>>
  /\ KeysAt(0) = {ret.key}

\* key j is live after the step iff it was before, and has the value it had
KeyUntouched(j) ==
  /\ (j \in LiveKeysN) <=> (j \in LiveKeys)
  /\ j \in LiveKeys => keys_'[j] \in Range(vals_') /\ ValOfN(j) = ValOf(j)

\* C20: pmap[k], ++, --, = and Erase(k) change neither the liveness nor the
\* value of a key other than k; Pop changes the liveness of exactly one key
\* (of none on an empty map) and the value of none; Top changes nothing
C20_Frame ==
  [][/\ ret'.op \in {"Read", "Incr", "Decr", "Assign", "Erase"} =>
          \A j \in Keys \ {ret'.key} : KeyUntouched(j)
     /\ ret'.op = "Pop" =>
          /\ LiveKeysN \subseteq LiveKeys
          /\ Cardinality(LiveKeys \ LiveKeysN) = IF LiveKeys = {} THEN 0 ELSE 1
          /\ \A j \in LiveKeysN : KeyUntouched(j)
     /\ ret'.op = "Top" => \A j \in Keys : KeyUntouched(j)]_vars

\* Erase removed a key from a bucket two other keys stay in, next to no other
C20_Witness ==
  /\ ret.op = "Erase" /\ ret.n = 1
  /\ Cardinality(LiveKeys) = 2
  /\ Len(vals_) = 1

\* the nodes with an edge into node b
Sources(b) == {a \in DOMAIN graph : \E j \in 1..Len(graph[a]) : graph[a][j] = b}

\* C15: in the test's run of Kahn's algorithm on the min-first map every Top
\* taken in the loop has value 0 (REQUIRE(minVal == 0) never fails), Top and
\* Pop never throw, no node is popped twice, every popped node comes after
\* all sources of its incoming edges, and when the loop ends the map is empty
\* and exactly 6 nodes have been popped; for every choice among tied keys
C15_KahnTopological ==
  /\ kahn.pc \notin {"threw", "failed_minVal"}
  /\ kahn.pc = "pop" => kahn.minVal = 0
  /\ \A p, q \in 1..Len(topological) : p # q => topological[p] # topological[q]
  /\ \A q \in 1..Len(topological) :
       \A a \in Sources(topological[q]) : \E p \in 1..(q - 1) : topological[p] = a
  /\ kahn.pc \in {"done", "failed_valid"} =>
       /\ Len(topological) = GraphSize
       /\ LiveKeys = {}
       /\ vals_ = <<>>

\* the run ended with the order in which 5 is popped before 0
C15_Witness ==
  /\ kahn.pc = "done"
  /\ topological = <<2, 4, 5, 0, 3, 1>>
  /\ Empty(PM)

\* C16: the order the run ends with is one of the three golden orders
C16_GoldenOnly ==
  Len(topological) = GraphSize => topological \in golden

\* C17: GetMaxRank() is the largest value stored in rank_of_, the size of the
\* largest set, also when nodes were inserted and no Union has merged two sets
C17_MaxRankIsMax ==
  GetMaxRank(UF) = IF Inserted = {}
                   THEN 0
                   ELSE Max({rank_of_[x] : x \in DOMAIN rank_of_} \cup {Cardinality(c) : c \in joined})

\* Find(x) == Find(y), the two calls made one after the other
SameSet(x, y) == Find(parent_of_, x).u = Find(Find(parent_of_, x).parent, y).u

\* the count and the representatives agree with the history of the calls
ComponentsAgree ==
  /\ DOMAIN parent_of_ = Inserted
  /\ GetNumComponents(UF) = Cardinality({x \in Inserted : parent_of_[x] = x})
  /\ GetNumComponents(UF) = Cardinality(joined)
  /\ \A x, y \in Inserted : SameSet(x, y) <=> ClassOf(x) = ClassOf(y)

\* C18: GetNumComponents() is the number of connected components: the number
\* of inserted nodes that are their own parent; Find(u) == Find(v) exactly for
\* nodes joined by a chain of Union calls; a re-insert and a Union inside one
\* set leave the count alone; a Union with a node never inserted changes nothing
C18_NumComponents ==
  ([]ComponentsAgree) /\
  [][/\ (ret'.op = "InsertNode" /\ ~ret'.created) => num_cc_' = num_cc_
     /\ (/\ ret'.op = "Union"
         /\ ret'.key \in Inserted
         /\ ret'.val \in Inserted
         /\ SameSet(ret'.key, ret'.val)) => num_cc_' = num_cc_
     /\ (/\ ret'.op = "Union"
         /\ (ret'.key \notin Inserted \/ ret'.val \notin Inserted))
        => UNCHANGED <<parent_of_, rank_of_, max_rank_, num_cc_>>]_vars

\* three nodes merged into one set, then a Union with a node never inserted
C18_Witness ==
  /\ ret.op = "Union"
  /\ ret.key \in Inserted
  /\ ret.val \notin Inserted
  /\ Cardinality(Inserted) = 3
  /\ GetNumComponents(UF) = 1
  /\ \E x \in Inserted : parent_of_[x] # x

\* ---- a Proxy kept by the caller: auto p = pmap[key]; ... ++p; ----
\* Update(key, new_val) for a key that is not in keys_: keys_[key] creates a
\* value-initialised list iterator and *old_it reads through it, which is
\* undefined.  The outcomes: the read faults and the process ends, or it
\* yields a value equal to new_val and Update returns, the iterator of no
\* node left in keys_.
UpdateAbsent(S, key, new_val) ==
  {[map |-> S, err |-> "crash"],
   [map |-> [S EXCEPT !.keys = MapPut(@, key, Freed)], err |-> "none"]}

\* ++p / --p on a kept Proxy: val(key) is keys_.at(key), which throws
\* std::out_of_range for a key that is not there
HeldStep(S, key, d) ==
  IF key \in DOMAIN S.keys
  THEN {[map |-> T, err |-> "none"] : T \in Update(S, key, val(S, key) + d)}
  ELSE {[map |-> S, err |-> "out_of_range"]}

\* p = v on a kept Proxy
HeldAssign(S, key, v) ==
  IF key \in DOMAIN S.keys
  THEN {[map |-> T, err |-> "none"] : T \in ProxyAssign(S, key, v)}
  ELSE UpdateAbsent(S, key, v)

\* the run is followed until undefined behaviour has happened
Running == ret.err # "crash" /\ IteratorsValid

\* auto p = pmap[key];
PGet(key) ==
  /\ Running
  /\ proxy = NoProxy
  /\ \E T \in OperatorIndex(PM, key) :
       /\ Store(T)
       /\ ret' = Ret("Get", key, 0, 0, key \notin DOMAIN keys_, "none")
       /\ EndRun(T)
  /\ live' = live \cup {key}
  /\ proxy' = key
  /\ UNCHANGED <<kahn, topological, ufvars>>

\* the end of the scope of p
PDrop ==
  /\ Running
  /\ proxy # NoProxy
  /\ proxy' = NoProxy
  /\ ret' = Ret("Drop", proxy, 0, 0, FALSE, "none")
  /\ UNCHANGED <<comp_, vals_, node_val, keys_, val_to_keys_, popped, size0, live>>
  /\ UNCHANGED <<kahn, topological, ufvars>>

\* the outcome r of an operation through p
HeldStore(op, v, r) ==
  /\ Store(r.map)
  /\ ret' = Ret(op, proxy, v, 0, FALSE, r.err)
  /\ EndRun(r.map)
  /\ live' = IF r.err = "none" THEN live \cup {proxy} ELSE live
  /\ UNCHANGED <<callervars, ufvars>>

\* ++p;
PIncr ==
  /\ Running
  /\ proxy # NoProxy
  /\ proxy \in DOMAIN keys_ => val(PM, proxy) + 1 \in Vals
  /\ \E r \in HeldStep(PM, proxy, 1) : HeldStore("HeldIncr", 0, r)

\* --p;
PDecr ==
  /\ Running
  /\ proxy # NoProxy
  /\ proxy \in DOMAIN keys_ => val(PM, proxy) - 1 \in Vals
  /\ \E r \in HeldStep(PM, proxy, 0 - 1) : HeldStore("HeldDecr", 0, r)

\* p = v;
PAssign(v) ==
  /\ Running
  /\ proxy # NoProxy
  /\ \E r \in HeldAssign(PM, proxy, v) : HeldStore("HeldAssign", v, r)

\* pmap.Erase(key); while p may be kept
PErase(key) == Running /\ DoErase(key)

\* pmap.Pop(); while p may be kept
PPop == Running /\ DoPop

ProxyNext ==
  \/ \E key \in Keys : PGet(key)
  \/ PDrop
  \/ PIncr
  \/ PDecr
  \/ \E v \in Vals : PAssign(v)
  \/ \E key \in Keys : PErase(key)
  \/ PPop

ProxySpec == Init /\ [][ProxyNext]_vars

\* C14: increment, decrement and assignment through an accessor are total:
\* applied while the key is absent (erased or popped after the accessor was
\* obtained), they raise no error and leave the key live with the value that
\* creation at 0 gives: 1, -1, or the value assigned
C14_AccessorTotal ==
  [][(/\ ret'.op \in {"HeldIncr", "HeldDecr", "HeldAssign"}
      /\ proxy \notin DOMAIN keys_)
     => /\ ret'.err = "none"
        /\ proxy \in DOMAIN keys_'
        /\ keys_'[proxy] \in Range(vals_')
        /\ ValOfN(proxy) = CASE ret'.op = "HeldIncr" -> 1
                             [] ret'.op = "HeldDecr" -> 0 - 1
                             [] OTHER -> ret'.val]_vars

\* ---- the callers' idiom: auto [u, minVal] = pmap.Top(); pmap.Pop(); ----
\* auto [u, minVal] = pmap.Top();  a Top that throws leaves the idiom
TTop ==
  /\ kahn.pc = "idle"
  /\ LET r == Top(PM)
     IN /\ ret' = Ret("Top", r.key, r.val, 0, FALSE, r.err)
        /\ kahn' = IF r.err = "none"
                   THEN [kahn EXCEPT !.pc = "pop", !.u = r.key, !.minVal = r.val]
                   ELSE kahn
  /\ UNCHANGED <<comp_, vals_, node_val, keys_, val_to_keys_, popped, size0, live>>
  /\ UNCHANGED <<proxy, topological, ufvars>>

\* pmap.Pop();  the statement after the Top
TPop ==
  /\ kahn.pc = "pop"
  /\ \E T \in Pop(PM) :
       LET r == PopResult(PM)
       IN /\ Store(T)
          /\ ret' = Ret("Pop", r.key, r.val, 0, FALSE, r.err)
          /\ popped' = IF r.err = "none" THEN Append(popped, r.val) ELSE popped
          /\ size0' = size0
          /\ live' = IF r.err = "none" THEN live \ {r.key} ELSE live
  /\ kahn' = [kahn EXCEPT !.pc = "idle"]
  /\ UNCHANGED <<proxy, topological, ufvars>>

\* pmap[key] = v; outside the idiom
TAssign(key, v) == kahn.pc = "idle" /\ DoAssign(key, v)

\* pmap.Erase(key); outside the idiom
TErase(key) == kahn.pc = "idle" /\ DoErase(key)

TopPopNext ==
  \/ TTop
  \/ TPop
  \/ \E key \in Keys, v \in Vals : TAssign(key, v)
  \/ \E key \in Keys : TErase(key)

TopPopSpec == Init /\ [][TopPopNext]_vars

\* C21: a Pop called right after a Top removes exactly the key the Top
\* returned, also with several keys tied at the front value: it throws
\* nothing, that key is gone, every other key stays with its value
C21_PopRemovesTopKey ==
  [][(kahn.pc = "pop" /\ kahn'.pc = "idle")
     => /\ ret'.op = "Pop"
        /\ ret'.err = "none"
        /\ ret'.key = kahn.u
        /\ ret'.val = kahn.minVal
        /\ kahn.u \in DOMAIN keys_
        /\ DOMAIN keys_' = DOMAIN keys_ \ {kahn.u}
        /\ \A k \in DOMAIN keys_' : ValOfN(k) = ValOf(k)]_vars

\* the Pop of the idiom has removed the key of the Top, and two more keys
\* tied with it are at the front
C21_Witness ==
  /\ ret.op = "Pop"
  /\ ret.err = "none"
  /\ kahn.pc = "idle"
  /\ ret.key = kahn.u
  /\ kahn.u \notin LiveKeys
  /\ Cardinality(KeysAt(ret.val)) = 2
  /\ ListVals # <<>>
  /\ ListVals[1] = ret.val

====
